---- MODULE Spec2Model ----
(***************************************************************************)
(* The notebook optimize-llama-gptq-optimum.ipynb as a state machine: one  *)
(* action per statement of its code cells, executed top to bottom by one   *)
(* kernel.  Library calls (optimum, transformers, torch, json, open) are   *)
(* modelled by their effect on the notebook's namespace, the save folder   *)
(* and the GPU, and each of them may raise.                                *)
(***************************************************************************)
EXTENDS Integers, Sequences, FiniteSets, TLC

VARIABLES
  pc,          \* label of the next statement to execute
  err,         \* label of the statement that raised, "none" while running
  trace,       \* labels of the statements that completed, in order
  ns,          \* the kernel's global namespace: name -> object ("unbound" if none)
  prompt,      \* value of the global `prompt` (a text)
  helper_default, \* default of generate_helper's `prompt` parameter
  quantizer,   \* attributes of the GPTQQuantizer object
  models,      \* the model objects M1 (first fp16 load), M2 (second), QM (reloaded)
  pipes,       \* the pipeline objects: their model and tokenizer
  fs,          \* the files of the save folder
  handles,     \* state of the read and write file handles of the current cell
  config,      \* the dict bound to `config` by the rewrite cell
  gpu,         \* models holding GPU memory, cached blocks, empty_cache calls
  deleted,     \* names removed by `del`, in order
  frame,       \* local variables of the running generate_helper call
  clock,       \* what time.time() returns
  calls,       \* log of pipeline and tokenizer calls
  results,     \* values bound to vanilla_res and gpq_res
  stdout,      \* the lines printed by the benchmark cells
  reruns       \* how often the rewrite cell was run again by hand

vars == <<pc, err, trace, ns, prompt, helper_default, quantizer, models, pipes,
          fs, handles, config, gpu, deleted, frame, clock, calls, results,
          stdout, reruns>>

-----------------------------------------------------------------------------
(* Bounds of the model *)

\* longest continuation (in characters) a pipeline call generates
MaxGen == 1
\* longest measured generation, in clock ticks of 10 microseconds
MaxElapsed == 2
\* how often the rewrite cell may be run again (specification SpecRerun)
MaxRerun == 1

-----------------------------------------------------------------------------
(* Values *)

Unbound == "unbound"
Alphabet == {"a", "b"}
Texts(n) == UNION {[1..k -> Alphabet] : k \in 0..n}

HubId == "philschmid/llama-2-7b-instruction-generator"
DatasetId == "wikitext2"
SaveFolder == "quantized_llama"
ReloadId == "quantized_llama"

\* the prompt of the benchmark, abstracted to two characters
PromptText == <<"#", ":">>
WarmUpText == <<"W">>
WarmUps == 5

NoModel == [src |-> "none", quantized |-> FALSE, device |-> "none",
            base |-> <<>>, qconfig |-> <<>>]
NoPipe == [model |-> "none", tokenizer |-> "none"]
NoFile == [state |-> "absent", entries |-> <<>>, indent |-> 0, newline |-> FALSE]
NoFrame == [active |-> FALSE, caller |-> "none", pipeline |-> "none",
            prompt |-> <<>>, i |-> 0, start |-> -1, end |-> -1, out |-> <<>>,
            generated_text |-> <<>>, counted |-> <<>>, num |-> -1, den |-> -1]
NoResult == [set |-> FALSE, text |-> <<>>, latency |-> ""]

-----------------------------------------------------------------------------
(* JSON: a dict is a sequence of entries [key, val, sub] in insertion      *)
(* order; a scalar has its JSON text in val, a nested dict has val =       *)
(* "dict" and its entries in sub.  A file adds the layout json.dump or the *)
(* library chose.                                                          *)

Scalar(k, v) == [key |-> k, val |-> v, sub |-> <<>>]
Nested(k, d) == [key |-> k, val |-> "dict", sub |-> d]

JsonBool(b) == IF b THEN "true" ELSE "false"

HasKey(d, k) == \E i \in 1..Len(d) : d[i].key = k
IndexOf(d, k) == CHOOSE i \in 1..Len(d) : d[i].key = k
Get(d, k) == d[IndexOf(d, k)]

\* d[k] = e for a Python dict: in place when the key exists, appended otherwise
SetItem(d, k, e) ==
  IF HasKey(d, k) THEN [d EXCEPT ![IndexOf(d, k)] = e] ELSE Append(d, e)

\* json.load(f): the whole file is read, then parsed
json_load(file) == file.entries

\* json.dump(obj, f, indent=2): no trailing newline
json_dump(d, file) ==
  [state |-> "json", entries |-> d, indent |-> 2, newline |-> FALSE]

\* quantizer.to_dict()
to_dict(q) ==
  << Scalar("bits", ToString(q.bits)),
     Scalar("dataset", q.dataset),
     Scalar("model_seqlen", ToString(q.model_seqlen)),
     Scalar("quant_method", q.quant_method),
     Scalar("disable_exllama", JsonBool(q.disable_exllama)) >>

\* config.json as save_pretrained writes it: keys sorted, indent 2, newline
ConfigJson(m) ==
  [state |-> "json",
   entries |-> << m.base[1], Nested("quantization_config", m.qconfig) >>
               \o Tail(m.base),
   indent |-> 2, newline |-> TRUE]

VocabSizes == {"32000", "32001"}
BaseConfig(v) == << Scalar("model_type", "llama"), Scalar("vocab_size", v) >>

-----------------------------------------------------------------------------
(* Control flow: the cells run top to bottom, each statement once *)

SuccTable(l) ==
  CASE l = "dataset_id"       -> "mk_quantizer"
    [] l = "mk_quantizer"     -> "set_quant_method"
    [] l = "set_quant_method" -> "model_id_1"
    [] l = "model_id_1"       -> "load_tokenizer_1"
    [] l = "load_tokenizer_1" -> "load_model_1"
    [] l = "load_model_1"     -> "quantize"
    [] l = "quantize"         -> "save_folder"
    [] l = "save_folder"      -> "save_model"
    [] l = "save_model"       -> "save_tokenizer"
    [] l = "save_tokenizer"   -> "open_qc"
    [] l = "open_qc"          -> "set_disable"
    [] l = "set_disable"      -> "dump_qc"
    [] l = "dump_qc"          -> "open_cfg_r"
    [] l = "open_cfg_r"       -> "load_cfg"
    [] l = "load_cfg"         -> "set_cfg"
    [] l = "set_cfg"          -> "open_cfg_w"
    [] l = "open_cfg_w"       -> "dump_cfg"
    [] l = "dump_cfg"         -> "def_prompt"
    [] l = "def_prompt"       -> "def_helper"
    [] l = "def_helper"       -> "model_id_2"
    [] l = "model_id_2"       -> "load_tokenizer_2"
    [] l = "load_tokenizer_2" -> "load_model_2"
    [] l = "load_model_2"     -> "mk_pipe"
    [] l = "mk_pipe"          -> "call_vanilla"
    [] l = "call_vanilla"     -> "print_vanilla"
    [] l = "print_vanilla"    -> "del_pipe"
    [] l = "del_pipe"         -> "del_model"
    [] l = "del_model"        -> "del_tokenizer"
    [] l = "del_tokenizer"    -> "empty_cache"
    [] l = "empty_cache"      -> "model_id_3"
    [] l = "model_id_3"       -> "load_q_tokenizer"
    [] l = "load_q_tokenizer" -> "load_q_model"
    [] l = "load_q_model"     -> "mk_qtq_pipe"
    [] l = "mk_qtq_pipe"      -> "call_gpq"
    [] l = "call_gpq"         -> "print_gpq"
    [] l = "print_gpq"        -> "done"
    [] OTHER                  -> "done"
SuccSkipRewrite(l) == IF l = "dump_qc" THEN "def_prompt" ELSE SuccTable(l)
SuccSkipCleanup(l) == IF l = "print_vanilla" THEN "model_id_3" ELSE SuccTable(l)
Succ(l) == SuccTable(l)

At(l) == err = "none" /\ pc = l
Done(l) == trace' = Append(trace, l) /\ err' = err
Goto(l) == pc' = Succ(l) /\ Done(l)

-----------------------------------------------------------------------------
Init ==
  /\ pc = "dataset_id"
  /\ err = "none"
  /\ trace = <<>>
  /\ ns = [n \in {"dataset_id", "quantizer", "model_id", "tokenizer", "model",
                  "quantized_model", "save_folder", "f", "config", "prompt",
                  "generate_helper", "pipe", "vanilla_res", "q_tokenizer",
                  "q_model", "qtq_pipe", "gpq_res"} |-> Unbound]
  /\ prompt = <<>>
  /\ helper_default = <<>>
  /\ quantizer = [bits |-> 0, dataset |-> "none", model_seqlen |-> 0,
                  quant_method |-> "none", disable_exllama |-> FALSE]
  /\ models = [m \in {"M1", "M2", "QM"} |-> NoModel]
  /\ pipes = [p \in {"pipe", "qtq_pipe"} |-> NoPipe]
  /\ fs = [weights |-> FALSE, tokenizer |-> FALSE,
           quantize_config |-> NoFile, config |-> NoFile]
  /\ handles = [r |-> "none", w |-> "none"]
  /\ config = <<>>
  /\ gpu = [allocated |-> {}, cached |-> {}, empty_cache_calls |-> 0]
  /\ deleted = <<>>
  /\ frame = NoFrame
  /\ clock = 0
  /\ calls = <<>>
  /\ results = [vanilla |-> NoResult, gpq |-> NoResult]
  /\ stdout = <<>>
  /\ reruns = 0

-----------------------------------------------------------------------------
(* Cell: dataset id *)

AssignDatasetId ==
  /\ At("dataset_id")
  /\ ns' = [ns EXCEPT !.dataset_id = DatasetId]
  /\ Goto("dataset_id")
  /\ UNCHANGED <<prompt, helper_default, quantizer, models, pipes, fs, handles,
                 config, gpu, deleted, frame, clock, calls, results, stdout, reruns>>

(* Cell: GPTQ quantizer *)

MakeQuantizer ==
  /\ At("mk_quantizer")
  /\ ns.dataset_id # Unbound
  /\ quantizer' = [bits |-> 4, dataset |-> ns.dataset_id, model_seqlen |-> 4096,
                   quant_method |-> "none", disable_exllama |-> FALSE]
  /\ ns' = [ns EXCEPT !.quantizer = "Q"]
  /\ Goto("mk_quantizer")
  /\ UNCHANGED <<prompt, helper_default, models, pipes, fs, handles, config, gpu,
                 deleted, frame, clock, calls, results, stdout, reruns>>

SetQuantMethod ==
  /\ At("set_quant_method")
  /\ quantizer' = [quantizer EXCEPT !.quant_method = "gptq"]
  /\ Goto("set_quant_method")
  /\ UNCHANGED <<ns, prompt, helper_default, models, pipes, fs, handles, config,
                 gpu, deleted, frame, clock, calls, results, stdout, reruns>>

(* Cell: load the fp16 model *)

AssignModelId1 ==
  /\ At("model_id_1")
  /\ ns' = [ns EXCEPT !.model_id = HubId]
  /\ Goto("model_id_1")
  /\ UNCHANGED <<prompt, helper_default, quantizer, models, pipes, fs, handles,
                 config, gpu, deleted, frame, clock, calls, results, stdout, reruns>>

LoadTokenizer1 ==
  /\ At("load_tokenizer_1")
  /\ ns.model_id = HubId
  /\ ns' = [ns EXCEPT !.tokenizer = "tok_slow"]
  /\ Goto("load_tokenizer_1")
  /\ UNCHANGED <<prompt, helper_default, quantizer, models, pipes, fs, handles,
                 config, gpu, deleted, frame, clock, calls, results, stdout, reruns>>

LoadModel1 ==
  /\ At("load_model_1")
  /\ ns.model_id = HubId
  /\ \E v \in VocabSizes :
       models' = [models EXCEPT !.M1 = [src |-> ns.model_id, quantized |-> FALSE,
                                        device |-> "cpu", base |-> BaseConfig(v),
                                        qconfig |-> <<>>]]
  /\ ns' = [ns EXCEPT !.model = "M1"]
  /\ Goto("load_model_1")
  /\ UNCHANGED <<prompt, helper_default, quantizer, pipes, fs, handles, config,
                 gpu, deleted, frame, clock, calls, results, stdout, reruns>>

(* Cell: quantize and save *)

\* quantizer.quantize_model(model, tokenizer): quantizes the model in place,
\* records the quantizer's parameters in the model's config and returns the
\* model; it sets disable_exllama when the model was partially offloaded.
QuantizeModel ==
  /\ At("quantize")
  /\ ns.model # Unbound /\ ns.tokenizer # Unbound /\ ns.quantizer # Unbound
  /\ \E offloaded \in BOOLEAN :
       /\ quantizer' = [quantizer EXCEPT !.disable_exllama = offloaded]
       /\ models' = [models EXCEPT ![ns.model].quantized = TRUE,
                                   ![ns.model].qconfig = to_dict(quantizer')]
  /\ ns' = [ns EXCEPT !.quantized_model = ns.model]
  /\ Goto("quantize")
  /\ UNCHANGED <<prompt, helper_default, pipes, fs, handles, config, gpu,
                 deleted, frame, clock, calls, results, stdout, reruns>>

AssignSaveFolder ==
  /\ At("save_folder")
  /\ ns' = [ns EXCEPT !.save_folder = SaveFolder]
  /\ Goto("save_folder")
  /\ UNCHANGED <<prompt, helper_default, quantizer, models, pipes, fs, handles,
                 config, gpu, deleted, frame, clock, calls, results, stdout, reruns>>

SaveModel ==
  /\ At("save_model")
  /\ ns.quantized_model # Unbound /\ ns.save_folder = SaveFolder
  /\ fs' = [fs EXCEPT !.weights = TRUE,
                      !.config = ConfigJson(models[ns.quantized_model])]
  /\ Goto("save_model")
  /\ UNCHANGED <<ns, prompt, helper_default, quantizer, models, pipes, handles,
                 config, gpu, deleted, frame, clock, calls, results, stdout, reruns>>

\* tokenizer = AutoTokenizer.from_pretrained(model_id).save_pretrained(save_folder)
\* binds `tokenizer` to the tuple of file names save_pretrained returns
SaveTokenizer ==
  /\ At("save_tokenizer")
  /\ ns.model_id = HubId /\ ns.save_folder = SaveFolder
  /\ fs' = [fs EXCEPT !.tokenizer = TRUE]
  /\ ns' = [ns EXCEPT !.tokenizer = "saved_files"]
  /\ Goto("save_tokenizer")
  /\ UNCHANGED <<prompt, helper_default, quantizer, models, pipes, handles,
                 config, gpu, deleted, frame, clock, calls, results, stdout, reruns>>

\* open(..., "w") creates or truncates the file
OpenQuantizeConfig ==
  /\ At("open_qc")
  /\ ns.save_folder = SaveFolder
  /\ fs' = [fs EXCEPT !.quantize_config = [NoFile EXCEPT !.state = "empty"]]
  /\ handles' = [handles EXCEPT !.w = "open"]
  /\ ns' = [ns EXCEPT !.f = "w"]
  /\ Goto("open_qc")
  /\ UNCHANGED <<prompt, helper_default, quantizer, models, pipes, config, gpu,
                 deleted, frame, clock, calls, results, stdout, reruns>>

SetDisableExllamaKeep ==
  /\ At("set_disable")
  /\ Goto("set_disable")
  /\ UNCHANGED <<ns, prompt, helper_default, quantizer, models, pipes, fs, handles,
                 config, gpu, deleted, frame, clock, calls, results, stdout, reruns>>
SetDisableExllama ==
  /\ At("set_disable")
  /\ quantizer' = [quantizer EXCEPT !.disable_exllama = FALSE]
  /\ Goto("set_disable")
  /\ UNCHANGED <<ns, prompt, helper_default, models, pipes, fs, handles, config,
                 gpu, deleted, frame, clock, calls, results, stdout, reruns>>

\* json.dump(quantizer.to_dict(), f, indent=2), then the with block closes f
DumpQuantizeConfig ==
  /\ At("dump_qc")
  /\ handles.w = "open"
  /\ fs' = [fs EXCEPT !.quantize_config =
                          json_dump(to_dict(quantizer), fs.quantize_config)]
  /\ handles' = [handles EXCEPT !.w = "closed"]
  /\ Goto("dump_qc")
  /\ UNCHANGED <<ns, prompt, helper_default, quantizer, models, pipes, config, gpu,
                 deleted, frame, clock, calls, results, stdout, reruns>>


(* Cell: rewrite config.json *)

OpenConfigRead ==
  /\ At("open_cfg_r")
  /\ ns.save_folder = SaveFolder
  /\ fs.config.state # "absent"
  /\ handles' = [handles EXCEPT !.r = "open"]
  /\ ns' = [ns EXCEPT !.f = "r"]
  /\ Goto("open_cfg_r")
  /\ UNCHANGED <<prompt, helper_default, quantizer, models, pipes, fs, config, gpu,
                 deleted, frame, clock, calls, results, stdout, reruns>>

\* config = json.load(f): reads the file to its end and parses it
LoadConfig ==
  /\ At("load_cfg")
  /\ handles.r = "open"
  /\ fs.config.state = "json"
  /\ config' = json_load(fs.config)
  /\ handles' = [handles EXCEPT !.r = "eof"]
  /\ ns' = [ns EXCEPT !.config = "dict"]
  /\ Goto("load_cfg")
  /\ UNCHANGED <<prompt, helper_default, quantizer, models, pipes, fs, gpu,
                 deleted, frame, clock, calls, results, stdout, reruns>>

\* config["quantization_config"]["disable_exllama"] = False
CanSetFlag(d) ==
  HasKey(d, "quantization_config") /\ Get(d, "quantization_config").val = "dict"
SetFlagResetSection(d) ==
  SetItem(d, "quantization_config",
          Nested("quantization_config",
                 <<Scalar("disable_exllama", JsonBool(FALSE))>>))
SetFlag(d) ==
  SetItem(d, "quantization_config",
          Nested("quantization_config",
                 SetItem(Get(d, "quantization_config").sub, "disable_exllama",
                         Scalar("disable_exllama", JsonBool(FALSE)))))

SetConfigFlag ==
  /\ At("set_cfg")
  /\ ns.config = "dict"
  /\ CanSetFlag(config)
  /\ config' = SetFlag(config)
  /\ Goto("set_cfg")
  /\ UNCHANGED <<ns, prompt, helper_default, quantizer, models, pipes, fs, handles,
                 gpu, deleted, frame, clock, calls, results, stdout, reruns>>

\* the file is opened for writing, and so truncated, inside the block that
\* still holds the read handle; `f` is rebound to the write handle
OpenConfigWrite ==
  /\ At("open_cfg_w")
  /\ ns.save_folder = SaveFolder
  /\ fs' = [fs EXCEPT !.config = [NoFile EXCEPT !.state = "empty"]]
  /\ handles' = [handles EXCEPT !.w = "open"]
  /\ ns' = [ns EXCEPT !.f = "w"]
  /\ Goto("open_cfg_w")
  /\ UNCHANGED <<prompt, helper_default, quantizer, models, pipes, config, gpu,
                 deleted, frame, clock, calls, results, stdout, reruns>>

\* json.dump(config, f, indent=2); both with blocks close their files
DumpConfig ==
  /\ At("dump_cfg")
  /\ handles.w = "open"
  /\ fs' = [fs EXCEPT !.config = json_dump(config, fs.config)]
  /\ handles' = [r |-> "closed", w |-> "closed"]
  /\ Goto("dump_cfg")
  /\ UNCHANGED <<ns, prompt, helper_default, quantizer, models, pipes, config, gpu,
                 deleted, frame, clock, calls, results, stdout, reruns>>

\* the whole cell, run once more by hand before the notebook goes on
RerunRewriteCell ==
  /\ At("def_prompt")
  /\ reruns < MaxRerun
  /\ fs.config.state = "json"
  /\ CanSetFlag(json_load(fs.config))
  /\ config' = SetFlag(json_load(fs.config))
  /\ fs' = [fs EXCEPT !.config = json_dump(config', [NoFile EXCEPT !.state = "empty"])]
  /\ reruns' = reruns + 1
  /\ UNCHANGED <<pc, err, trace, ns, prompt, helper_default, quantizer, models,
                 pipes, handles, gpu, deleted, frame, clock, calls, results, stdout>>

(* Cell: prompt and generate_helper *)

DefPrompt ==
  /\ At("def_prompt")
  /\ prompt' = PromptText
  /\ ns' = [ns EXCEPT !.prompt = "str"]
  /\ Goto("def_prompt")
  /\ UNCHANGED <<helper_default, quantizer, models, pipes, fs, handles, config,
                 gpu, deleted, frame, clock, calls, results, stdout, reruns>>

\* def generate_helper(pipeline, prompt=prompt): the default is evaluated now
DefHelper ==
  /\ At("def_helper")
  /\ ns.prompt # Unbound
  /\ helper_default' = prompt
  /\ ns' = [ns EXCEPT !.generate_helper = "function"]
  /\ Goto("def_helper")
  /\ UNCHANGED <<prompt, quantizer, models, pipes, fs, handles, config, gpu,
                 deleted, frame, clock, calls, results, stdout, reruns>>

(* Memory of a model is released when nothing refers to it any more *)

Referenced(nsx) ==
  {nsx.model, nsx.quantized_model, nsx.q_model}
    \cup {pipes[p].model : p \in {nsx.pipe, nsx.qtq_pipe} \ {Unbound}}
Collect(g, nsx) ==
  [g EXCEPT !.allocated = g.allocated \cap Referenced(nsx),
            !.cached = g.cached \cup (g.allocated \ Referenced(nsx))]

(* Cell: load the vanilla model and its pipeline *)

AssignModelId2 ==
  /\ At("model_id_2")
  /\ ns' = [ns EXCEPT !.model_id = HubId]
  /\ Goto("model_id_2")
  /\ UNCHANGED <<prompt, helper_default, quantizer, models, pipes, fs, handles,
                 config, gpu, deleted, frame, clock, calls, results, stdout, reruns>>

LoadTokenizer2 ==
  /\ At("load_tokenizer_2")
  /\ ns.model_id = HubId
  /\ ns' = [ns EXCEPT !.tokenizer = "tok_fast"]
  /\ Goto("load_tokenizer_2")
  /\ UNCHANGED <<prompt, helper_default, quantizer, models, pipes, fs, handles,
                 config, gpu, deleted, frame, clock, calls, results, stdout, reruns>>

LoadModel2 ==
  /\ At("load_model_2")
  /\ ns.model_id = HubId
  /\ models' = [models EXCEPT !.M2 = [src |-> ns.model_id, quantized |-> FALSE,
                                      device |-> "auto", base |-> models.M1.base,
                                      qconfig |-> <<>>]]
  /\ ns' = [ns EXCEPT !.model = "M2"]
  /\ gpu' = Collect([gpu EXCEPT !.allocated = @ \cup {"M2"}], ns')
  /\ Goto("load_model_2")
  /\ UNCHANGED <<prompt, helper_default, quantizer, pipes, fs, handles, config,
                 deleted, frame, clock, calls, results, stdout, reruns>>

MakePipe ==
  /\ At("mk_pipe")
  /\ ns.model # Unbound /\ ns.tokenizer # Unbound
  /\ pipes' = [pipes EXCEPT !.pipe = [model |-> ns.model, tokenizer |-> ns.tokenizer]]
  /\ ns' = [ns EXCEPT !.pipe = "pipe"]
  /\ Goto("mk_pipe")
  /\ UNCHANGED <<prompt, helper_default, quantizer, models, fs, handles, config,
                 gpu, deleted, frame, clock, calls, results, stdout, reruns>>

(* generate_helper *)

NoArg == [given |-> FALSE, text |-> <<>>]
DefaultParams == [max_new_tokens |-> -1, do_sample |-> FALSE,
                  top_p |-> "default", temperature |-> "default"]
GenParams == [max_new_tokens |-> 100, do_sample |-> TRUE,
              top_p |-> "0.9", temperature |-> "0.9"]

\* the arguments of the two calls of generate_helper
VanillaCall == [pipeline |-> "pipe", prompt |-> NoArg]
GpqCallOtherPrompt == [pipeline |-> "qtq_pipe",
                       prompt |-> [given |-> TRUE, text |-> <<"?">>]]
GpqCall == [pipeline |-> "qtq_pipe", prompt |-> NoArg]

\* s[n:] of a Python string
PySliceFromOffByOne(s, n) == SubSeq(s, n, Len(s))
PySliceFrom(s, n) == SubSeq(s, n + 1, Len(s))

\* round(x, 2) of x = num/den hundredths: the nearest hundredth; at a tie the
\* float's binary value decides, so either neighbour is possible
Abs(x) == IF x < 0 THEN -x ELSE x
Round2(num, den) == {h \in 0..num : 2 * Abs(h * den - num) <= den}

\* str() of a float with at most two decimals, given in hundredths
FloatStr(h) ==
  ToString(h \div 100) \o "." \o
    (IF (h % 100) % 10 = 0 THEN ToString((h % 100) \div 10)
     ELSE IF h % 100 < 10 THEN "0" \o ToString(h % 100)
     ELSE ToString(h % 100))

Enter(label, call) ==
  /\ At(label)
  /\ ns.generate_helper # Unbound
  /\ ns[call.pipeline] # Unbound
  /\ frame' = [NoFrame EXCEPT
                 !.active = TRUE, !.caller = label, !.pipeline = call.pipeline,
                 !.prompt = IF call.prompt.given THEN call.prompt.text
                            ELSE helper_default]
  /\ pc' = "h_warm"
  /\ UNCHANGED <<err, trace, ns, prompt, helper_default, quantizer, models, pipes,
                 fs, handles, config, gpu, deleted, clock, calls, results, stdout,
                 reruns>>

CallLog(kind, text, params) ==
  [run |-> frame.caller, pipeline |-> frame.pipeline, kind |-> kind,
   text |-> text, params |-> params,
   started |-> frame.start # -1, ended |-> frame.end # -1]

\* for i in range(5): _ = pipeline("Warm up")
WarmUpTimed ==
  /\ At("h_warm")
  /\ frame.i < WarmUps
  /\ calls' = Append(calls, CallLog("pipeline", WarmUpText, DefaultParams))
  /\ clock' = clock + 1
  /\ frame' = [frame EXCEPT !.i = @ + 1,
                            !.start = IF frame.i = 0 THEN clock ELSE @]
  /\ pc' = IF frame.i + 1 = WarmUps THEN "h_gen" ELSE "h_warm"
  /\ Done("h_warm")
  /\ UNCHANGED <<ns, prompt, helper_default, quantizer, models, pipes, fs, handles,
                 config, gpu, deleted, results, stdout, reruns>>
WarmUp ==
  /\ At("h_warm")
  /\ frame.i < WarmUps
  /\ calls' = Append(calls, CallLog("pipeline", WarmUpText, DefaultParams))
  /\ clock' = clock + 1
  /\ frame' = [frame EXCEPT !.i = @ + 1]
  /\ pc' = IF frame.i + 1 = WarmUps THEN "h_start" ELSE "h_warm"
  /\ Done("h_warm")
  /\ UNCHANGED <<ns, prompt, helper_default, quantizer, models, pipes, fs, handles,
                 config, gpu, deleted, results, stdout, reruns>>

\* start = time.time()
TakeStart ==
  /\ At("h_start")
  /\ frame' = [frame EXCEPT !.start = clock]
  /\ pc' = "h_gen"
  /\ Done("h_start")
  /\ UNCHANGED <<ns, prompt, helper_default, quantizer, models, pipes, fs, handles,
                 config, gpu, deleted, clock, calls, results, stdout, reruns>>

\* out = pipeline(prompt, max_new_tokens=100, do_sample=True, top_p=0.9,
\*                temperature=0.9): one result, the prompt and its continuation
Generate ==
  /\ At("h_gen")
  /\ \E cont \in Texts(MaxGen), d \in 1..MaxElapsed :
       /\ frame' = [frame EXCEPT !.out = <<[generated_text |-> frame.prompt \o cont]>>]
       /\ clock' = clock + d
  /\ calls' = Append(calls, CallLog("pipeline", frame.prompt, GenParams))
  /\ pc' = "h_end"
  /\ Done("h_gen")
  /\ UNCHANGED <<ns, prompt, helper_default, quantizer, models, pipes, fs, handles,
                 config, gpu, deleted, results, stdout, reruns>>

\* end = time.time()
TakeEnd ==
  /\ At("h_end")
  /\ frame' = [frame EXCEPT !.end = clock]
  /\ pc' = "h_slice"
  /\ Done("h_end")
  /\ UNCHANGED <<ns, prompt, helper_default, quantizer, models, pipes, fs, handles,
                 config, gpu, deleted, clock, calls, results, stdout, reruns>>

\* generated_text = out[0]["generated_text"][len(prompt):]
SliceGenerated ==
  /\ At("h_slice")
  /\ Len(frame.out) >= 1
  /\ frame' = [frame EXCEPT !.generated_text =
                 PySliceFrom(frame.out[1].generated_text, Len(frame.prompt))]
  /\ pc' = "h_latency"
  /\ Done("h_slice")
  /\ UNCHANGED <<ns, prompt, helper_default, quantizer, models, pipes, fs, handles,
                 config, gpu, deleted, clock, calls, results, stdout, reruns>>

\* latency_per_token_in_ms =
\*   ((end-start)/len(pipeline.tokenizer(generated_text)["input_ids"]))*1000
\* The Llama tokenizer puts a BOS token first, then at most one id a character.
\* With ticks of 10 microseconds the value is num/den hundredths of a ms.
ComputeLatency ==
  /\ At("h_latency")
  /\ \E n \in 1..(1 + Len(frame.generated_text)) :
       frame' = [frame EXCEPT !.counted = frame.generated_text,
                              !.num = frame.end - frame.start, !.den = n]
  /\ calls' = Append(calls, CallLog("tokenizer", frame.generated_text, DefaultParams))
  /\ clock' = clock + 1
  /\ pc' = "h_return"
  /\ Done("h_latency")
  /\ UNCHANGED <<ns, prompt, helper_default, quantizer, models, pipes, fs, handles,
                 config, gpu, deleted, results, stdout, reruns>>

\* return {"text": out[0]["generated_text"][len(prompt):],
\*         "latency": f"{round(latency_per_token_in_ms,2)}ms/token"}
\* and the caller binds the value
ResultName(label) == IF label = "call_vanilla" THEN "vanilla" ELSE "gpq"
Return ==
  /\ At("h_return")
  /\ \E h \in Round2(frame.num, frame.den) :
       results' = [results EXCEPT ![ResultName(frame.caller)] =
                     [set |-> TRUE,
                      text |-> PySliceFrom(frame.out[1].generated_text,
                                           Len(frame.prompt)),
                      latency |-> FloatStr(h) \o "ms/token"]]
  /\ ns' = [ns EXCEPT ![IF frame.caller = "call_vanilla" THEN "vanilla_res"
                        ELSE "gpq_res"] = "dict"]
  /\ frame' = [frame EXCEPT !.active = FALSE]
  /\ pc' = Succ(frame.caller)
  /\ trace' = trace \o <<"h_return", frame.caller>>
  /\ err' = err
  /\ UNCHANGED <<prompt, helper_default, quantizer, models, pipes, fs, handles,
                 config, gpu, deleted, clock, calls, stdout, reruns>>

(* Cell: the vanilla baseline *)

CallVanilla == Enter("call_vanilla", VanillaCall)

Report(name) ==
  [cell |-> name, latency |-> results[name].latency,
   memory |-> gpu.allocated, text |-> results[name].text]

PrintVanilla ==
  /\ At("print_vanilla")
  /\ ns.vanilla_res # Unbound
  /\ stdout' = Append(stdout, Report("vanilla"))
  /\ Goto("print_vanilla")
  /\ UNCHANGED <<ns, prompt, helper_default, quantizer, models, pipes, fs, handles,
                 config, gpu, deleted, frame, clock, calls, results, reruns>>

(* Cell: clean up *)

Del(label, name) ==
  /\ At(label)
  /\ ns[name] # Unbound
  /\ ns' = [ns EXCEPT ![name] = Unbound]
  /\ deleted' = Append(deleted, name)
  /\ gpu' = Collect(gpu, ns')
  /\ Goto(label)
  /\ UNCHANGED <<prompt, helper_default, quantizer, models, pipes, fs, handles,
                 config, frame, clock, calls, results, stdout, reruns>>

DelPipe == Del("del_pipe", "pipe")
DelModel == Del("del_model", "model")
DelTokenizer == Del("del_tokenizer", "tokenizer")

\* torch.cuda.empty_cache()
EmptyCache ==
  /\ At("empty_cache")
  /\ gpu' = [gpu EXCEPT !.cached = {}, !.empty_cache_calls = @ + 1]
  /\ Goto("empty_cache")
  /\ UNCHANGED <<ns, prompt, helper_default, quantizer, models, pipes, fs, handles,
                 config, deleted, frame, clock, calls, results, stdout, reruns>>

(* Cell: reload the quantized model *)

AssignModelId3 ==
  /\ At("model_id_3")
  /\ ns' = [ns EXCEPT !.model_id = ReloadId]
  /\ Goto("model_id_3")
  /\ UNCHANGED <<prompt, helper_default, quantizer, models, pipes, fs, handles,
                 config, gpu, deleted, frame, clock, calls, results, stdout, reruns>>

LoadQTokenizer ==
  /\ At("load_q_tokenizer")
  /\ ns.model_id = SaveFolder
  /\ fs.tokenizer
  /\ ns' = [ns EXCEPT !.q_tokenizer = "q_tok"]
  /\ Goto("load_q_tokenizer")
  /\ UNCHANGED <<prompt, helper_default, quantizer, models, pipes, fs, handles,
                 config, gpu, deleted, frame, clock, calls, results, stdout, reruns>>

\* from_pretrained reads config.json and the weights of the folder
LoadQModel ==
  /\ At("load_q_model")
  /\ ns.model_id = SaveFolder
  /\ fs.weights
  /\ fs.config.state = "json"
  /\ CanSetFlag(json_load(fs.config))
  /\ models' = [models EXCEPT !.QM =
                  [src |-> ns.model_id, quantized |-> TRUE, device |-> "auto",
                   base |-> SelectSeq(json_load(fs.config),
                                      LAMBDA e : e.key # "quantization_config"),
                   qconfig |-> Get(json_load(fs.config), "quantization_config").sub]]
  /\ ns' = [ns EXCEPT !.q_model = "QM"]
  /\ gpu' = Collect([gpu EXCEPT !.allocated = @ \cup {"QM"}], ns')
  /\ Goto("load_q_model")
  /\ UNCHANGED <<prompt, helper_default, quantizer, pipes, fs, handles, config,
                 deleted, frame, clock, calls, results, stdout, reruns>>

MakeQtqPipe ==
  /\ At("mk_qtq_pipe")
  /\ ns.q_model # Unbound /\ ns.q_tokenizer # Unbound
  /\ pipes' = [pipes EXCEPT !.qtq_pipe = [model |-> ns.q_model,
                                          tokenizer |-> ns.q_tokenizer]]
  /\ ns' = [ns EXCEPT !.qtq_pipe = "qtq_pipe"]
  /\ Goto("mk_qtq_pipe")
  /\ UNCHANGED <<prompt, helper_default, quantizer, models, fs, handles, config,
                 gpu, deleted, frame, clock, calls, results, stdout, reruns>>

(* Cell: the quantized benchmark *)

CallGpq == Enter("call_gpq", GpqCall)

PrintGpq ==
  /\ At("print_gpq")
  /\ ns.gpq_res # Unbound
  /\ stdout' = Append(stdout, Report("gpq"))
  /\ Goto("print_gpq")
  /\ UNCHANGED <<ns, prompt, helper_default, quantizer, models, pipes, fs, handles,
                 config, gpu, deleted, frame, clock, calls, results, reruns>>

-----------------------------------------------------------------------------
(* A library call raises: no cell has a try statement, so the exception    *)
(* leaves the helper and the cell and the run stops; a with block closes   *)
(* its file on the way out, and a json.dump that raises may have written   *)
(* part of its output.                                                     *)

Failable ==
  {"mk_quantizer", "load_tokenizer_1", "load_model_1", "quantize", "save_model",
   "save_tokenizer", "open_qc", "dump_qc", "open_cfg_r", "load_cfg", "set_cfg",
   "open_cfg_w", "dump_cfg", "load_tokenizer_2", "load_model_2", "mk_pipe",
   "h_warm", "h_gen", "h_slice", "h_latency", "print_vanilla", "empty_cache",
   "load_q_tokenizer", "load_q_model", "mk_qtq_pipe", "print_gpq"}

CloseOnExit(h) ==
  [x \in DOMAIN h |-> IF h[x] \in {"open", "eof"} THEN "closed" ELSE h[x]]

PartialWrite(l, part) ==
  IF part /\ l = "dump_qc"
    THEN [fs EXCEPT !.quantize_config = [@ EXCEPT !.state = "partial"]]
  ELSE IF part /\ l = "dump_cfg"
    THEN [fs EXCEPT !.config = [@ EXCEPT !.state = "partial"]]
  ELSE fs

RaiseSwallowed ==
  /\ At(pc)
  /\ pc \in Failable \ {"h_warm", "h_gen", "h_slice", "h_latency"}
  /\ err' = pc
  /\ pc' = Succ(pc)
  /\ UNCHANGED <<trace, ns, prompt, helper_default, quantizer, models, pipes, fs,
                 handles, config, gpu, deleted, frame, clock, calls, results,
                 stdout, reruns>>
Raise ==
  /\ At(pc)
  /\ pc \in Failable
  /\ err' = pc
  /\ \E part \in BOOLEAN : fs' = PartialWrite(pc, part)
  /\ handles' = CloseOnExit(handles)
  /\ frame' = [frame EXCEPT !.active = FALSE]
  /\ UNCHANGED <<pc, trace, ns, prompt, helper_default, quantizer, models, pipes,
                 config, gpu, deleted, clock, calls, results, stdout, reruns>>

-----------------------------------------------------------------------------
Next ==
  \/ AssignDatasetId \/ MakeQuantizer \/ SetQuantMethod
  \/ AssignModelId1 \/ LoadTokenizer1 \/ LoadModel1
  \/ QuantizeModel \/ AssignSaveFolder \/ SaveModel \/ SaveTokenizer
  \/ OpenQuantizeConfig \/ SetDisableExllama \/ DumpQuantizeConfig
  \/ OpenConfigRead \/ LoadConfig \/ SetConfigFlag \/ OpenConfigWrite \/ DumpConfig
  \/ DefPrompt \/ DefHelper
  \/ AssignModelId2 \/ LoadTokenizer2 \/ LoadModel2 \/ MakePipe
  \/ CallVanilla \/ WarmUp \/ TakeStart \/ Generate \/ TakeEnd \/ SliceGenerated
  \/ ComputeLatency \/ Return \/ PrintVanilla
  \/ DelPipe \/ DelModel \/ DelTokenizer \/ EmptyCache
  \/ AssignModelId3 \/ LoadQTokenizer \/ LoadQModel \/ MakeQtqPipe
  \/ CallGpq \/ PrintGpq
  \/ Raise

Spec == Init /\ [][Next]_vars

\* the same run, where the rewrite cell may also be run a second time
NextRerun == Next \/ RerunRewriteCell

SpecRerun == Init /\ [][NextRerun]_vars

-----------------------------------------------------------------------------
(* Properties *)

IsPrefix(a, b) == Len(a) <= Len(b) /\ \A i \in 1..Len(a) : a[i] = b[i]
Occurs(l) == \E i \in 1..Len(trace) : trace[i] = l
HelperLabels == {"h_warm", "h_start", "h_gen", "h_end", "h_slice", "h_latency",
                 "h_return"}
Reloaded == models.QM.src # "none"

\* C1: the steps of a top-to-bottom run happen in one fixed order, none twice:
\* create the quantizer, load the fp16 model, quantize, save model, tokenizer
\* and quantize_config.json, rewrite config.json, benchmark the baseline,
\* clean up, reload the quantized model, benchmark it; and the quantized model
\* is never reloaded before the save and the rewrite have completed.
StepOrder ==
  <<"mk_quantizer", "load_model_1", "quantize", "save_model", "save_tokenizer",
    "dump_qc", "dump_cfg", "call_vanilla", "empty_cache", "load_q_model",
    "call_gpq">>
IsStep(l) == \E i \in 1..Len(StepOrder) : StepOrder[i] = l
C1_FixedOrder ==
  /\ IsPrefix(SelectSeq(trace, IsStep), StepOrder)
  /\ \A i, j \in 1..Len(trace) :
       (i < j /\ trace[i] = trace[j]) => trace[i] \in HelperLabels
  /\ (Reloaded \/ pc = "load_q_model") =>
       /\ Occurs("save_model") /\ Occurs("save_tokenizer") /\ Occurs("dump_qc")
       /\ Occurs("dump_cfg")
       /\ fs.weights /\ fs.config.state = "json"
C1_Witness ==
  pc = "done" /\ err = "none" /\ SelectSeq(trace, IsStep) = StepOrder /\ Reloaded

\* C2: once the quantize-and-save cell has completed, the save folder holds
\* the weights, the tokenizer files and a quantize_config.json that is the
\* quantizer's parameters with bits 4, quant_method "gptq" and disable_exllama
\* false, whatever quantize_model left in disable_exllama; and the quantized
\* model is later reloaded from that same folder.
ValueOf(d, k) == (CHOOSE e \in {d[i] : i \in 1..Len(d)} : e.key = k).val
C2_SavedArtifacts ==
  /\ Occurs("dump_qc") =>
       /\ fs.weights /\ fs.tokenizer
       /\ fs.quantize_config.state = "json"
       /\ fs.quantize_config.entries = to_dict(quantizer)
       /\ ValueOf(fs.quantize_config.entries, "bits") = "4"
       /\ ValueOf(fs.quantize_config.entries, "quant_method") = "gptq"
       /\ ValueOf(fs.quantize_config.entries, "disable_exllama") = "false"
  /\ Reloaded => models.QM.src = ns.save_folder
C2_Witness ==
  /\ Occurs("dump_qc") /\ Reloaded
  /\ ValueOf(models.M1.qconfig, "disable_exllama") = "true"

\* C3: the rewrite cell changes one thing only: afterwards config.json has
\* quantization_config.disable_exllama false and every other key and value,
\* those of quantization_config included, is what the file held before, though
\* the file is truncated while the read handle is open; and running the cell a
\* second time leaves the file as it is.
WrittenBySave == ConfigJson(models.M1).entries
SameExceptFlag(before, after) ==
  /\ Len(after) = Len(before)
  /\ \A i \in 1..Len(before) :
       /\ after[i].key = before[i].key
       /\ after[i].val = before[i].val
       /\ IF before[i].key = "quantization_config"
            THEN /\ Len(after[i].sub) = Len(before[i].sub)
                 /\ \A j \in 1..Len(before[i].sub) :
                      /\ after[i].sub[j].key = before[i].sub[j].key
                      /\ IF before[i].sub[j].key = "disable_exllama"
                           THEN after[i].sub[j].val = "false"
                           ELSE after[i].sub[j] = before[i].sub[j]
            ELSE after[i] = before[i]
C3_FrameState ==
  /\ (pc \in {"open_cfg_r", "load_cfg", "set_cfg", "open_cfg_w"}
        /\ fs.config.state = "json") => fs.config.entries = WrittenBySave
  /\ (pc = "dump_cfg" /\ err = "none") =>
       handles.r = "eof" /\ fs.config.state = "empty"
  /\ Occurs("dump_cfg") =>
       /\ fs.config.state = "json"
       /\ SameExceptFlag(WrittenBySave, fs.config.entries)
C3_RewriteFrame ==
  /\ []C3_FrameState
  /\ [][RerunRewriteCell => fs' = fs]_vars
C3_Witness ==
  /\ reruns >= 1 /\ Occurs("dump_cfg")
  /\ ValueOf(models.M1.qconfig, "disable_exllama") = "true"
  /\ fs.config.entries # WrittenBySave

\* C4: GPU memory is freed explicitly once per run: the one cleanup (del pipe,
\* model, tokenizer, then empty_cache) runs after the baseline has reported
\* its memory and before the quantized model is loaded, and no other step
\* frees or deletes a model.
BaselineReported == \E i \in 1..Len(stdout) : stdout[i].cell = "vanilla"
Created == {m \in DOMAIN models : models[m].src # "none"}
C4_SingleCleanup ==
  /\ gpu.empty_cache_calls <= 1
  /\ IsPrefix(deleted, <<"pipe", "model", "tokenizer">>)
  /\ deleted # <<>> => BaselineReported
  /\ gpu.empty_cache_calls = 1 =>
       deleted = <<"pipe", "model", "tokenizer">> /\ gpu.cached = {}
  /\ (Reloaded \/ pc = "load_q_model") => gpu.empty_cache_calls = 1
  /\ gpu.empty_cache_calls = 0 => ~Reloaded
  /\ \A m \in Created : m \in Referenced(ns) \/ (m = "M2" /\ Len(deleted) >= 2)
  /\ pc = "done" => gpu.empty_cache_calls = 1
C4_Witness ==
  /\ pc = "done" /\ err = "none" /\ gpu.empty_cache_calls = 1
  /\ stdout[1].memory = {"M2"} /\ stdout[2].memory = {"QM"}

\* C5: nothing catches, retries or translates a failure: when a library call
\* raises, the failure is that call's, no later statement runs and no call is
\* made again.
C5_NoRecovery ==
  [][ /\ err = "none"
      /\ err' # "none" =>
           /\ err' = pc /\ pc' = pc /\ trace' = trace /\ calls' = calls
           /\ ns' = ns /\ results' = results /\ stdout' = stdout
           /\ ~frame'.active ]_vars
C5_Witness ==
  err = "h_gen" /\ frame.caller = "call_gpq" /\ results.vanilla.set

\* C6: both benchmark runs call generate_helper with the same prompt (the
\* default bound when the helper was defined), the same warm-ups and the same
\* generation parameters; they differ only in the pipeline.
CallsOf(r) == SelectSeq(calls, LAMBDA c : c.run = r)
Shape(cs) ==
  [i \in 1..Len(cs) |->
     [kind |-> cs[i].kind, params |-> cs[i].params,
      text |-> IF cs[i].kind = "pipeline" THEN cs[i].text ELSE <<>>,
      started |-> cs[i].started, ended |-> cs[i].ended]]
C6_SamePrompt ==
  /\ IsPrefix(Shape(CallsOf("call_gpq")), Shape(CallsOf("call_vanilla")))
  /\ \A i \in 1..Len(calls) :
       /\ calls[i].pipeline = (IF calls[i].run = "call_vanilla" THEN "pipe"
                               ELSE "qtq_pipe")
       /\ (calls[i].kind = "pipeline" /\ calls[i].params = GenParams) =>
            calls[i].text = PromptText /\ calls[i].text = helper_default
       /\ (calls[i].kind = "pipeline" /\ calls[i].params # GenParams) =>
            calls[i].text = WarmUpText /\ calls[i].params = DefaultParams
  /\ results.gpq.set =>
       Shape(CallsOf("call_gpq")) = Shape(CallsOf("call_vanilla"))
C6_Witness ==
  /\ pc = "done" /\ results.gpq.set /\ results.vanilla.set
  /\ results.gpq.text # results.vanilla.text
  /\ Len(CallsOf("call_gpq")) = WarmUps + 2

\* C7: in every call of generate_helper the five warm-up calls on "Warm up"
\* complete before the start timestamp, exactly one pipeline call (the
\* generation on the prompt) lies between start and end, and the tokenizer
\* call that counts the tokens comes after the end timestamp.
Count(cs, P(_)) == Len(SelectSeq(cs, P))
IsWarm(c) == c.kind = "pipeline" /\ c.text = WarmUpText
IsTimed(c) == c.started /\ ~c.ended
RunOrdered(r) ==
  LET cs == CallsOf(r) IN
  /\ \A i \in 1..Len(cs) :
       /\ IsWarm(cs[i]) => ~cs[i].started /\ i <= WarmUps
       /\ ~IsWarm(cs[i]) => i > WarmUps
       /\ IsTimed(cs[i]) => cs[i].kind = "pipeline" /\ cs[i].params = GenParams
                            /\ cs[i].text = PromptText
       /\ cs[i].kind = "tokenizer" => cs[i].ended
       /\ cs[i].kind = "pipeline" => ~cs[i].ended
  /\ Count(cs, IsTimed) <= 1
  /\ results[ResultName(r)].set =>
       /\ Count(cs, IsWarm) = WarmUps
       /\ Count(cs, IsTimed) = 1
       /\ Count(cs, LAMBDA c : c.kind = "tokenizer") = 1
C7_TimedInterval ==
  /\ RunOrdered("call_vanilla") /\ RunOrdered("call_gpq")
  /\ (frame.active /\ frame.start # -1) =>
       Count(CallsOf(frame.caller), IsWarm) = WarmUps
  /\ (frame.active /\ frame.end # -1) =>
       Count(CallsOf(frame.caller), IsTimed) = 1
C7_Witness ==
  /\ results.gpq.set /\ results.vanilla.set
  /\ Count(CallsOf("call_gpq"), IsWarm) = WarmUps
  /\ Count(CallsOf("call_gpq"), IsTimed) = 1

\* C8: generate_helper returns as "text" the first result's generated_text
\* without its first len(prompt) characters, and as latency the elapsed time
\* divided by the number of input_ids of that same text, times 1000, rounded
\* to two decimals, with "ms/token" after it; the text counted is the text
\* returned.
Returned == frame.caller # "none" /\ results[ResultName(frame.caller)].set
C8_ReturnValue ==
  Returned =>
    LET res == results[ResultName(frame.caller)]
        full == frame.out[1].generated_text
        skip == Len(frame.prompt)
        elapsed == frame.end - frame.start
        ids == frame.den
    IN /\ Len(res.text) = (IF Len(full) > skip THEN Len(full) - skip ELSE 0)
       /\ \A i \in 1..Len(res.text) : res.text[i] = full[skip + i]
       /\ frame.counted = res.text
       /\ ids >= 1 /\ elapsed >= 0
       /\ \E h \in 0..elapsed :
            /\ (2 * h - 1) * ids <= 2 * elapsed
            /\ 2 * elapsed <= (2 * h + 1) * ids
            /\ res.latency = FloatStr(h) \o "ms/token"
C8_Witness ==
  /\ Returned /\ frame.caller = "call_gpq"
  /\ Len(results.gpq.text) = 1 /\ frame.den = 2 /\ frame.end - frame.start = 1
  /\ results.gpq.latency = "0.01ms/token"

====
